---- MODULE Spec2Model ----
(***************************************************************************)
(* Digital Media Catalog: the access-control policy, the photo mutation    *)
(* operations and the queries of the business layer, over the collections  *)
(* of the persistence layer.                                               *)
(*                                                                         *)
(* JavaScript values are represented as follows.                           *)
(*   string            a sequence of one-character strings                 *)
(*   null object       the record Null                                     *)
(*   undefined field   the empty sequence Undefined; a defined value v is  *)
(*                     the one-element sequence <<v>>                      *)
(*   null user id      NoUser                                              *)
(*   collection        a sequence of records in insertion order            *)
(***************************************************************************)
EXTENDS Integers, Sequences, FiniteSets, TLC

VARIABLES photos, comments, users, last, requests, outbox

vars == <<photos, comments, users, last, requests, outbox>>

----------------------------------------------------------------------------
(* Bounds of the model *)

MaxPhotos == 2

MaxComments == 2

MaxUsers == 2

----------------------------------------------------------------------------
(* Values *)

Null == [null |-> TRUE]

Undefined == <<>>

NoUser == 0

UserIds == {1, 2}

Actors == UserIds \cup {NoUser}

EmptyStr == <<>>

Lake == <<"L", "a", "k", "e">>

Visibilities == {"public", "private"}

Range(s) == {s[i] : i \in DOMAIN s}

----------------------------------------------------------------------------
(* Access control policy *)

(* mutant: a private photo is shown to every user *)
canViewPhoto_IgnoreOwner(photo, userId) ==
    IF photo \in {Null, Undefined} THEN FALSE
    ELSE IF photo.visibility = "public" THEN TRUE
    ELSE IF photo.visibility = "private" THEN TRUE
    ELSE FALSE

(* mutant: a private photo is shown to every logged-in user *)
canViewPhoto_AnyLoggedIn(photo, userId) ==
    IF photo \in {Null, Undefined} THEN FALSE
    ELSE IF photo.visibility = "public" THEN TRUE
    ELSE IF photo.visibility = "private" /\ userId # NoUser THEN TRUE
    ELSE FALSE

(* mutant: with no photo in hand the answer is yes *)
canViewPhoto_NoPhotoGrants(photo, userId) ==
    IF photo \in {Null, Undefined} THEN TRUE
    ELSE IF photo.visibility = "public" THEN TRUE
    ELSE IF photo.visibility = "private" /\ photo.owner = userId THEN TRUE
    ELSE FALSE

canViewPhoto(photo, userId) ==
    IF photo \in {Null, Undefined} THEN FALSE
    ELSE IF photo.visibility = "public" THEN TRUE
    ELSE IF photo.visibility = "private" /\ photo.owner = userId THEN TRUE
    ELSE FALSE

(* mutant: a public photo may be edited by every logged-in user *)
canEditPhoto_PublicEditable(photo, userId) ==
    IF photo \in {Null, Undefined} \/ userId = NoUser THEN FALSE
    ELSE photo.owner = userId \/ photo.visibility = "public"

canEditPhoto(photo, userId) ==
    IF photo \in {Null, Undefined} \/ userId = NoUser THEN FALSE
    ELSE photo.owner = userId

----------------------------------------------------------------------------
(* Persistence layer: the photos collection *)

Truthy(opt) == opt # Undefined /\ opt[1] # EmptyStr

OrElse(opt, default) == IF Truthy(opt) THEN opt[1] ELSE default

maxId(coll) ==
    IF coll = <<>> THEN 0
    ELSE CHOOSE m \in {coll[i].id : i \in DOMAIN coll} :
             \A i \in DOMAIN coll : coll[i].id <= m

findPhotoById(coll, photoId) ==
    IF \E i \in DOMAIN coll : coll[i].id = photoId
    THEN coll[CHOOSE i \in DOMAIN coll :
                 /\ coll[i].id = photoId
                 /\ \A j \in DOMAIN coll : coll[j].id = photoId => i <= j]
    ELSE Null

createPhoto(coll, photoData, now) ==
    LET nextId == IF coll # <<>> THEN maxId(coll) + 1 ELSE 1
        photo == [id          |-> nextId,
                  filename    |-> photoData.filename,
                  title       |-> OrElse(photoData.title, EmptyStr),
                  description |-> OrElse(photoData.description, EmptyStr),
                  tags        |-> IF photoData.tags # Undefined
                                  THEN photoData.tags[1] ELSE <<>>,
                  albums      |-> IF photoData.albums # Undefined
                                  THEN photoData.albums[1] ELSE <<>>,
                  visibility  |-> IF photoData.visibility # Undefined
                                     /\ photoData.visibility[1] # ""
                                  THEN photoData.visibility[1] ELSE "private",
                  owner       |-> photoData.owner,
                  date        |-> IF photoData.date # Undefined
                                  THEN photoData.date[1] ELSE now]
    IN  [coll |-> Append(coll, photo), photo |-> photo]

(* mutant: a field the update omits is cleared *)
setFields_ClearOmitted(photo, updateFields) ==
    [id          |-> photo.id,
     filename    |-> photo.filename,
     title       |-> IF updateFields.title # Undefined
                     THEN updateFields.title[1] ELSE EmptyStr,
     description |-> IF updateFields.description # Undefined
                     THEN updateFields.description[1] ELSE EmptyStr,
     tags        |-> photo.tags,
     albums      |-> photo.albums,
     visibility  |-> IF updateFields.visibility # Undefined
                     THEN updateFields.visibility[1] ELSE photo.visibility,
     owner       |-> photo.owner,
     date        |-> photo.date]

(* mutant: the document is replaced by the update, which names no owner *)
setFields_Replace(photo, updateFields) ==
    [id          |-> photo.id,
     filename    |-> photo.filename,
     title       |-> IF updateFields.title # Undefined
                     THEN updateFields.title[1] ELSE photo.title,
     description |-> IF updateFields.description # Undefined
                     THEN updateFields.description[1] ELSE photo.description,
     tags        |-> photo.tags,
     albums      |-> photo.albums,
     visibility  |-> IF updateFields.visibility # Undefined
                     THEN updateFields.visibility[1] ELSE photo.visibility,
     owner       |-> NoUser,
     date        |-> photo.date]

(* updateOne({id: photoId}, {$set: updateFields}): the first matching document *)
setFields(photo, updateFields) ==
    [id          |-> photo.id,
     filename    |-> photo.filename,
     title       |-> IF updateFields.title # Undefined
                     THEN updateFields.title[1] ELSE photo.title,
     description |-> IF updateFields.description # Undefined
                     THEN updateFields.description[1] ELSE photo.description,
     tags        |-> photo.tags,
     albums      |-> photo.albums,
     visibility  |-> IF updateFields.visibility # Undefined
                     THEN updateFields.visibility[1] ELSE photo.visibility,
     owner       |-> photo.owner,
     date        |-> photo.date]

(* mutant: success is read from the number of documents modified *)
updateOne_ModifiedCount(coll, photoId, updateFields) ==
    IF findPhotoById(coll, photoId) = Null
    THEN [coll |-> coll, matchedCount |-> 0]
    ELSE LET k == CHOOSE i \in DOMAIN coll :
                      /\ coll[i].id = photoId
                      /\ \A j \in DOMAIN coll : coll[j].id = photoId => i <= j
         IN  [coll |-> [coll EXCEPT ![k] = setFields(coll[k], updateFields)],
              matchedCount |-> IF setFields(coll[k], updateFields) # coll[k]
                               THEN 1 ELSE 0]

updateOne(coll, photoId, updateFields) ==
    IF findPhotoById(coll, photoId) = Null
    THEN [coll |-> coll, matchedCount |-> 0]
    ELSE LET k == CHOOSE i \in DOMAIN coll :
                      /\ coll[i].id = photoId
                      /\ \A j \in DOMAIN coll : coll[j].id = photoId => i <= j
         IN  [coll |-> [coll EXCEPT ![k] = setFields(coll[k], updateFields)],
              matchedCount |-> 1]

(* mutant: the update writes title and description only *)
updatePhoto_NoVisibility(coll, photoId, updates) ==
    LET updateFields == [title       |-> updates.title,
                         description |-> updates.description,
                         visibility  |-> Undefined]
    IN  IF /\ updateFields.title = Undefined
           /\ updateFields.description = Undefined
        THEN [coll |-> coll, updated |-> TRUE]
        ELSE LET result == updateOne(coll, photoId, updateFields)
             IN  [coll |-> result.coll, updated |-> result.matchedCount > 0]

updatePhoto(coll, photoId, updates) ==
    LET updateFields == [title       |-> updates.title,
                         description |-> updates.description,
                         visibility  |-> updates.visibility]
    IN  IF /\ updateFields.title = Undefined
           /\ updateFields.description = Undefined
           /\ updateFields.visibility = Undefined
        THEN [coll |-> coll, updated |-> TRUE]
        ELSE LET result == updateOne(coll, photoId, updateFields)
             IN  [coll |-> result.coll, updated |-> result.matchedCount > 0]

----------------------------------------------------------------------------
(* Business layer: photo updates *)

Result(success, message) == [success |-> success, message |-> message]

(* mutant: the permission check comes before the lookup result is tested *)
updatePhotoWithVisibility_PermissionFirst(coll, photoId, userId, updates) ==
    LET photo == findPhotoById(coll, photoId) IN
    IF ~canEditPhoto(photo, userId)
    THEN [coll |-> coll,
          result |-> Result(FALSE, "You do not have permission to edit this photo")]
    ELSE IF photo = Null
    THEN [coll |-> coll, result |-> Result(FALSE, "Photo not found")]
    ELSE LET updateData == [title       |-> updates.title,
                            description |-> updates.description,
                            visibility  |-> updates.visibility]
             r == updatePhoto(coll, photoId, updateData)
         IN  IF r.updated
             THEN [coll |-> r.coll, result |-> Result(TRUE, "Photo updated successfully")]
             ELSE [coll |-> r.coll, result |-> Result(FALSE, "Failed to update photo")]

updatePhotoWithVisibility(coll, photoId, userId, updates) ==
    LET photo == findPhotoById(coll, photoId) IN
    IF photo = Null
    THEN [coll |-> coll, result |-> Result(FALSE, "Photo not found")]
    ELSE IF ~canEditPhoto(photo, userId)
    THEN [coll |-> coll,
          result |-> Result(FALSE, "You do not have permission to edit this photo")]
    ELSE LET updateData == [title       |-> updates.title,
                            description |-> updates.description,
                            visibility  |-> updates.visibility]
             r == updatePhoto(coll, photoId, updateData)
         IN  IF r.updated
             THEN [coll |-> r.coll, result |-> Result(TRUE, "Photo updated successfully")]
             ELSE [coll |-> r.coll, result |-> Result(FALSE, "Failed to update photo")]

updatePhotoDetails(coll, photoId, title, description) ==
    LET photo == findPhotoById(coll, photoId) IN
    IF photo = Null
    THEN [coll |-> coll, result |-> Result(FALSE, "Photo not found.")]
    ELSE LET updates == [title       |-> <<title>>,
                         description |-> <<description>>,
                         visibility  |-> Undefined]
             r == updatePhoto(coll, photoId, updates)
         IN  IF r.updated
             THEN [coll |-> r.coll, result |-> Result(TRUE, "Photo updated successfully")]
             ELSE [coll |-> r.coll, result |-> Result(FALSE, "Failed to update photo")]

----------------------------------------------------------------------------
(* The command-line application: photos.json persistence and its business *)
(* layer                                                                   *)

setFieldsJson(photo, updates) ==
    [id          |-> photo.id,
     filename    |-> photo.filename,
     title       |-> IF updates.title # Undefined
                     THEN updates.title[1] ELSE photo.title,
     description |-> IF updates.description # Undefined
                     THEN updates.description[1] ELSE photo.description,
     tags        |-> IF updates.tags # Undefined
                     THEN updates.tags[1] ELSE photo.tags,
     albums      |-> photo.albums,
     visibility  |-> photo.visibility,
     owner       |-> photo.owner,
     date        |-> photo.date]

updatePhotoJson(coll, photoId, updates) ==
    IF findPhotoById(coll, photoId) = Null
    THEN [coll |-> coll, found |-> FALSE]
    ELSE LET k == CHOOSE i \in DOMAIN coll :
                      /\ coll[i].id = photoId
                      /\ \A j \in DOMAIN coll : coll[j].id = photoId => i <= j
         IN  [coll |-> [coll EXCEPT ![k] = setFieldsJson(coll[k], updates)],
              found |-> TRUE]

updatePhotoDetailsJson(coll, photoId, userId, title, description) ==
    LET photo == findPhotoById(coll, photoId) IN
    IF photo = Null
    THEN [coll |-> coll, result |-> Result(FALSE, "Photo not found.")]
    ELSE IF photo.owner # userId
    THEN [coll |-> coll,
          result |-> Result(FALSE, "Access denied. You do not own this photo.")]
    ELSE LET updates == [title       |-> IF title # EmptyStr
                                         THEN <<title>> ELSE Undefined,
                         description |-> IF description # EmptyStr
                                         THEN <<description>> ELSE Undefined,
                         tags        |-> Undefined]
             r == updatePhotoJson(coll, photoId, updates)
         IN  [coll |-> r.coll, result |-> Result(TRUE, "Photo updated")]

(* mutant: the loop over the tags starts at the second tag *)
addTagToPhoto_SkipsFirstTag(coll, photoId, userId, tag) ==
    LET photo == findPhotoById(coll, photoId) IN
    IF photo = Null
    THEN [coll |-> coll, result |-> Result(FALSE, "Photo not found.")]
    ELSE IF photo.owner # userId
    THEN [coll |-> coll,
          result |-> Result(FALSE, "Access denied. You do not own this photo.")]
    ELSE IF \E i \in DOMAIN photo.tags : i > 1 /\ photo.tags[i] = tag
    THEN [coll |-> coll, result |-> Result(FALSE, "Photo already has this tag.")]
    ELSE LET newTags == Append(photo.tags, tag)
             r == updatePhotoJson(coll, photoId,
                                  [title |-> Undefined, description |-> Undefined,
                                   tags |-> <<newTags>>])
         IN  [coll |-> r.coll, result |-> Result(TRUE, "Updated!")]

addTagToPhoto(coll, photoId, userId, tag) ==
    LET photo == findPhotoById(coll, photoId) IN
    IF photo = Null
    THEN [coll |-> coll, result |-> Result(FALSE, "Photo not found.")]
    ELSE IF photo.owner # userId
    THEN [coll |-> coll,
          result |-> Result(FALSE, "Access denied. You do not own this photo.")]
    ELSE IF \E i \in DOMAIN photo.tags : photo.tags[i] = tag
    THEN [coll |-> coll, result |-> Result(FALSE, "Photo already has this tag.")]
    ELSE LET newTags == Append(photo.tags, tag)
             r == updatePhotoJson(coll, photoId,
                                  [title |-> Undefined, description |-> Undefined,
                                   tags |-> <<newTags>>])
         IN  [coll |-> r.coll, result |-> Result(TRUE, "Updated!")]

----------------------------------------------------------------------------
(* Strings *)

toLowerCaseChar(c) ==
    CASE c = "L" -> "l"
      [] c = "A" -> "a"
      [] c = "K" -> "k"
      [] c = "E" -> "e"
      [] OTHER   -> c

toLowerCase(str) == [i \in DOMAIN str |-> toLowerCaseChar(str[i])]

(* str.indexOf(term) !== -1 *)
includes(str, term) ==
    \E k \in 0 .. (Len(str) - Len(term)) :
        \A j \in 1 .. Len(term) : str[k + j] = term[j]

(* the white space String.prototype.trim removes: space, tab, line feed *)
WhiteSpace == {" ", "\t", "\n"}

RECURSIVE trimStart(_)
trimStart(str) ==
    IF str # <<>> /\ Head(str) \in WhiteSpace THEN trimStart(Tail(str)) ELSE str

RECURSIVE trimEnd(_)
trimEnd(str) ==
    IF str # <<>> /\ str[Len(str)] \in WhiteSpace
    THEN trimEnd(SubSeq(str, 1, Len(str) - 1)) ELSE str

trim(str) == trimEnd(trimStart(str))

----------------------------------------------------------------------------
(* The tag prompt of the command line *)

DigitValue ==
    [c \in {"0", "1", "2", "3", "4", "5", "6", "7", "8", "9"} |->
        CASE c = "0" -> 0 [] c = "1" -> 1 [] c = "2" -> 2 [] c = "3" -> 3
          [] c = "4" -> 4 [] c = "5" -> 5 [] c = "6" -> 6 [] c = "7" -> 7
          [] c = "8" -> 8 [] c = "9" -> 9]

(* the value of the longest prefix of digits, read after acc *)
RECURSIVE digitsValue(_, _)
digitsValue(str, acc) ==
    IF str # <<>> /\ Head(str) \in DOMAIN DigitValue
    THEN digitsValue(Tail(str), 10 * acc + DigitValue[Head(str)])
    ELSE acc

(* parseInt(str): leading white space and a sign are skipped, then the     *)
(* digits are read up to the first other character; NaN, here <<>>, when   *)
(* no digit is read                                                        *)
parseInt(str) ==
    LET s == trimStart(str)
        signed == s # <<>> /\ Head(s) \in {"+", "-"}
        body == IF signed THEN Tail(s) ELSE s
    IN  IF body = <<>> \/ Head(body) \notin DOMAIN DigitValue
        THEN <<>>
        ELSE IF signed /\ Head(s) = "-"
        THEN <<0 - digitsValue(body, 0)>>
        ELSE <<digitsValue(body, 0)>>

(* handleTagPhoto: what it prints, and the photos after it *)
handleTagPhoto(coll, user, photoIdInput, newTag) ==
    LET photoId == parseInt(photoIdInput) IN
    IF photoId = <<>>
    THEN [coll |-> coll, printed |-> "Please enter a valid photo ID."]
    ELSE IF trim(newTag) = EmptyStr
    THEN [coll |-> coll, printed |-> "Please enter a valid tag."]
    ELSE LET result == addTagToPhoto(coll, photoId[1], user.id, newTag)
         IN  [coll |-> result.coll, printed |-> result.result.message]

----------------------------------------------------------------------------
(* Comments *)

(* mutant: the comment takes the place of the stored comment of the photo *)
createComment_ReplacesByPhoto(coll, commentData, now) ==
    LET nextId == IF coll # <<>> THEN maxId(coll) + 1 ELSE 1
        comment == [id        |-> nextId,
                    photoId   |-> commentData.photoId,
                    userId    |-> commentData.userId,
                    username  |-> commentData.username,
                    text      |-> commentData.text,
                    createdAt |-> now]
        kept == SelectSeq(coll, LAMBDA c : c.photoId # commentData.photoId)
    IN  [coll |-> Append(kept, comment), comment |-> comment]

createComment(coll, commentData, now) ==
    LET nextId == IF coll # <<>> THEN maxId(coll) + 1 ELSE 1
        comment == [id        |-> nextId,
                    photoId   |-> commentData.photoId,
                    userId    |-> commentData.userId,
                    username  |-> commentData.username,
                    text      |-> commentData.text,
                    createdAt |-> now]
    IN  [coll |-> Append(coll, comment), comment |-> comment]

(* sendMail(to, subject, body): what it returns, and the mails it writes   *)
(* to the console                                                          *)
sendMail(to, subject, body) ==
    IF to = EmptyStr \/ subject = EmptyStr \/ body = EmptyStr
    THEN [result |-> FALSE, logged |-> <<>>]
    ELSE [result |-> TRUE,
          logged |-> <<[to |-> to, subject |-> subject, body |-> body]>>]

(* mutant: the comment is reported as failed when sendMail returns false *)
addComment_FailsWithoutMail(photoColl, coll, photoId, userId, username, commentText, now) ==
    IF commentText = EmptyStr \/ trim(commentText) = EmptyStr
    THEN [coll |-> coll, result |-> Result(FALSE, "Comment cannot be empty")]
    ELSE LET photo == findPhotoById(photoColl, photoId) IN
         IF photo = Null
         THEN [coll |-> coll, result |-> Result(FALSE, "Photo not found")]
         ELSE IF ~canViewPhoto(photo, userId)
         THEN [coll |-> coll,
               result |-> Result(FALSE, "You cannot comment on this photo")]
         ELSE LET r == createComment(coll, [photoId  |-> photoId,
                                            userId   |-> userId,
                                            username |-> username,
                                            text     |-> trim(commentText)], now)
                  sent == sendMail(username, <<"c">>, trim(commentText))
              IN  IF sent.result
                  THEN [coll |-> r.coll,
                        result |-> [success |-> TRUE,
                                    message |-> "Comment added successfully",
                                    comment |-> r.comment]]
                  ELSE [coll |-> r.coll,
                        result |-> Result(FALSE, "Notification failed")]

(* mutant: the photo is looked up before the text is validated *)
addComment_LookupFirst(photoColl, coll, photoId, userId, username, commentText, now) ==
    LET photo == findPhotoById(photoColl, photoId) IN
    IF photo = Null
    THEN [coll |-> coll, result |-> Result(FALSE, "Photo not found")]
    ELSE IF commentText = EmptyStr \/ trim(commentText) = EmptyStr
    THEN [coll |-> coll, result |-> Result(FALSE, "Comment cannot be empty")]
    ELSE IF ~canViewPhoto(photo, userId)
    THEN [coll |-> coll,
          result |-> Result(FALSE, "You cannot comment on this photo")]
    ELSE LET r == createComment(coll, [photoId  |-> photoId,
                                       userId   |-> userId,
                                       username |-> username,
                                       text     |-> trim(commentText)], now)
         IN  [coll |-> r.coll,
              result |-> [success |-> TRUE,
                          message |-> "Comment added successfully",
                          comment |-> r.comment]]

(* mutant: the right to comment is taken from the right to edit *)
addComment_OwnerOnly(photoColl, coll, photoId, userId, username, commentText, now) ==
    IF commentText = EmptyStr \/ trim(commentText) = EmptyStr
    THEN [coll |-> coll, result |-> Result(FALSE, "Comment cannot be empty")]
    ELSE LET photo == findPhotoById(photoColl, photoId) IN
         IF photo = Null
         THEN [coll |-> coll, result |-> Result(FALSE, "Photo not found")]
         ELSE IF ~canEditPhoto(photo, userId)
         THEN [coll |-> coll,
               result |-> Result(FALSE, "You cannot comment on this photo")]
         ELSE LET r == createComment(coll, [photoId  |-> photoId,
                                            userId   |-> userId,
                                            username |-> username,
                                            text     |-> trim(commentText)], now)
              IN  [coll |-> r.coll,
                   result |-> [success |-> TRUE,
                               message |-> "Comment added successfully",
                               comment |-> r.comment]]

addComment(photoColl, coll, photoId, userId, username, commentText, now) ==
    IF commentText = EmptyStr \/ trim(commentText) = EmptyStr
    THEN [coll |-> coll, result |-> Result(FALSE, "Comment cannot be empty")]
    ELSE LET photo == findPhotoById(photoColl, photoId) IN
         IF photo = Null
         THEN [coll |-> coll, result |-> Result(FALSE, "Photo not found")]
         ELSE IF ~canViewPhoto(photo, userId)
         THEN [coll |-> coll,
               result |-> Result(FALSE, "You cannot comment on this photo")]
         ELSE LET r == createComment(coll, [photoId  |-> photoId,
                                            userId   |-> userId,
                                            username |-> username,
                                            text     |-> trim(commentText)], now)
              IN  [coll |-> r.coll,
                   result |-> [success |-> TRUE,
                               message |-> "Comment added successfully",
                               comment |-> r.comment]]

(* find({photoId: photoId}).sort({createdAt: 1}): the comments of the     *)
(* photo by ascending createdAt. The sort names no other key, and the      *)
(* database promises no order among documents whose createdAt is equal:    *)
(* every order of them is a result the call may give.                      *)
getCommentsByPhotoId(coll, photoId) ==
    LET matching == SelectSeq(coll, LAMBDA c : c.photoId = photoId)
        n == Len(matching)
        orders == {f \in [1 .. n -> 1 .. n] :
                      /\ \A a, b \in 1 .. n : f[a] = f[b] => a = b
                      /\ \A a, b \in 1 .. n :
                             a < b => matching[f[a]].createdAt
                                          <= matching[f[b]].createdAt}
    IN  {[k \in 1 .. n |-> matching[f[k]]] : f \in orders}

getPhotoComments(coll, photoId) == getCommentsByPhotoId(coll, photoId)

----------------------------------------------------------------------------
(* Users *)

(* bcrypt.hash(password, SALT_ROUNDS) with the salt it draws, and          *)
(* bcrypt.compare(password, hash)                                          *)
bcryptHash(password, salt) == <<"$2b$", salt, password>>

bcryptCompare(password, hash) == hash = bcryptHash(password, hash[2])

(* mutant: the emails are compared without regard to case *)
findUserByEmail_IgnoreCase(coll, email) ==
    IF \E i \in DOMAIN coll : toLowerCase(coll[i].email) = toLowerCase(email)
    THEN coll[CHOOSE i \in DOMAIN coll :
                 /\ toLowerCase(coll[i].email) = toLowerCase(email)
                 /\ \A j \in DOMAIN coll :
                        toLowerCase(coll[j].email) = toLowerCase(email) => i <= j]
    ELSE Null

findUserByEmail(coll, email) ==
    IF \E i \in DOMAIN coll : coll[i].email = email
    THEN coll[CHOOSE i \in DOMAIN coll :
                 /\ coll[i].email = email
                 /\ \A j \in DOMAIN coll : coll[j].email = email => i <= j]
    ELSE Null

createUser(coll, userData, now) ==
    LET nextId == IF coll # <<>> THEN maxId(coll) + 1 ELSE 1
        user == [id        |-> nextId,
                 name      |-> userData.name,
                 email     |-> userData.email,
                 password  |-> userData.password,
                 createdAt |-> now]
    IN  [coll |-> Append(coll, user), user |-> user]

(* mutant: the user is inserted before the email is looked up *)
registerUser_InsertFirst(coll, name, email, password, salt, now) ==
    IF name = EmptyStr \/ email = EmptyStr \/ password = EmptyStr
    THEN [coll |-> coll, result |-> Result(FALSE, "All fields are required")]
    ELSE LET hashedPassword == bcryptHash(password, salt)
             r == createUser(coll, [name |-> name, email |-> email,
                                    password |-> hashedPassword], now)
         IN  IF findUserByEmail(coll, email) # Null
             THEN [coll |-> r.coll,
                   result |-> Result(FALSE, "Email already registered")]
             ELSE [coll |-> r.coll,
                   result |-> [success |-> TRUE,
                               message |-> "Registration successful",
                               user |-> [id |-> r.user.id, name |-> r.user.name,
                                         email |-> r.user.email]]]

registerUser(coll, name, email, password, salt, now) ==
    IF name = EmptyStr \/ email = EmptyStr \/ password = EmptyStr
    THEN [coll |-> coll, result |-> Result(FALSE, "All fields are required")]
    ELSE IF findUserByEmail(coll, email) # Null
    THEN [coll |-> coll, result |-> Result(FALSE, "Email already registered")]
    ELSE LET hashedPassword == bcryptHash(password, salt)
             r == createUser(coll, [name |-> name, email |-> email,
                                    password |-> hashedPassword], now)
         IN  [coll |-> r.coll,
              result |-> [success |-> TRUE,
                          message |-> "Registration successful",
                          user |-> [id |-> r.user.id, name |-> r.user.name,
                                    email |-> r.user.email]]]

(* mutant: an unknown email gets a message of its own *)
loginUser_DistinctMessages(coll, email, password) ==
    IF email = EmptyStr \/ password = EmptyStr
    THEN Result(FALSE, "Email and password are required")
    ELSE LET user == findUserByEmail(coll, email) IN
         IF user = Null
         THEN Result(FALSE, "No account with this email")
         ELSE IF ~bcryptCompare(password, user.password)
         THEN Result(FALSE, "Invalid email or password")
         ELSE [success |-> TRUE,
               message |-> "Login successful",
               user |-> [id |-> user.id, name |-> user.name,
                         email |-> user.email]]

loginUser(coll, email, password) ==
    IF email = EmptyStr \/ password = EmptyStr
    THEN Result(FALSE, "Email and password are required")
    ELSE LET user == findUserByEmail(coll, email) IN
         IF user = Null
         THEN Result(FALSE, "Invalid email or password")
         ELSE IF ~bcryptCompare(password, user.password)
         THEN Result(FALSE, "Invalid email or password")
         ELSE [success |-> TRUE,
               message |-> "Login successful",
               user |-> [id |-> user.id, name |-> user.name,
                         email |-> user.email]]

(* users.json, the file the command line reads its users from *)
usersJson ==
    <<[id |-> 1, username |-> <<"u">>, password |-> <<"p">>],
      [id |-> 2, username |-> <<"v">>, password |-> <<"q">>]>>

findUserByUsername(coll, username) ==
    IF \E i \in DOMAIN coll : coll[i].username = username
    THEN coll[CHOOSE i \in DOMAIN coll :
                 /\ coll[i].username = username
                 /\ \A j \in DOMAIN coll : coll[j].username = username => i <= j]
    ELSE Null

(* authenticateUser of the command line: the user object, or null *)
authenticateUser(coll, username, password) ==
    LET user == findUserByUsername(coll, username) IN
    IF user # Null /\ user.password = password THEN user ELSE Null

----------------------------------------------------------------------------
(* Search *)

(* mutant: the query is compared as typed *)
searchPhotos_QueryCaseKept(coll, query) ==
    LET searchTerm == query
        matches(photo) ==
            \/ photo.title # EmptyStr
                   /\ includes(toLowerCase(photo.title), searchTerm)
            \/ photo.description # EmptyStr
                   /\ includes(toLowerCase(photo.description), searchTerm)
            \/ Len(photo.tags) > 0
                   /\ \E j \in DOMAIN photo.tags :
                          includes(toLowerCase(photo.tags[j]), searchTerm)
    IN  SelectSeq(coll, matches)

searchPhotos(coll, query) ==
    LET searchTerm == toLowerCase(query)
        matches(photo) ==
            \/ photo.title # EmptyStr
                   /\ includes(toLowerCase(photo.title), searchTerm)
            \/ photo.description # EmptyStr
                   /\ includes(toLowerCase(photo.description), searchTerm)
            \/ Len(photo.tags) > 0
                   /\ \E j \in DOMAIN photo.tags :
                          includes(toLowerCase(photo.tags[j]), searchTerm)
    IN  SelectSeq(coll, matches)

(* business.searchPhotos(query, userId), which GET /search calls *)
businessSearchPhotos(coll, query, userId) ==
    LET visible(photo) == canViewPhoto(photo, userId)
    IN  SelectSeq(searchPhotos(coll, query), visible)

(* mutant: the route searches whatever the query *)
searchRoute_NoGuard(coll, q, userId) ==
    businessSearchPhotos(coll, q, userId)

searchRoute(coll, q, userId) ==
    LET query == q IN
    IF trim(query) # EmptyStr
    THEN businessSearchPhotos(coll, query, userId)
    ELSE <<>>

----------------------------------------------------------------------------
(* Albums *)

(* the albums collection; nothing in the program writes to it *)
albums ==
    << [id |-> 1, name |-> <<"a">>, description |-> EmptyStr],
       [id |-> 2, name |-> <<"b">>, description |-> EmptyStr] >>

findAlbumById(coll, albumId) ==
    IF \E i \in DOMAIN coll : coll[i].id = albumId
    THEN coll[CHOOSE i \in DOMAIN coll :
                 /\ coll[i].id = albumId
                 /\ \A j \in DOMAIN coll : coll[j].id = albumId => i <= j]
    ELSE Null

getPhotosByAlbum(coll, albumId) ==
    LET inAlbum(photo) == \E j \in DOMAIN photo.albums : photo.albums[j] = albumId
    IN  SelectSeq(coll, inAlbum)

getAlbumDetails(albumColl, coll, albumId) ==
    LET album == findAlbumById(albumColl, albumId) IN
    IF album = Null THEN Null
    ELSE LET albumPhotos == getPhotosByAlbum(coll, albumId)
         IN  [id          |-> album.id,
              name        |-> album.name,
              description |-> album.description,
              photos      |-> albumPhotos,
              photoCount  |-> Len(albumPhotos)]

(* mutant: the count of the album before filtering is reported *)
albumRoute_UnfilteredCount(albumColl, coll, albumId, userId) ==
    LET albumDetails == getAlbumDetails(albumColl, coll, albumId) IN
    IF albumDetails = Null
    THEN [status |-> 404, body |-> "Album not found"]
    ELSE LET visible(photo) == canViewPhoto(photo, userId)
             visiblePhotos == SelectSeq(albumDetails.photos, visible)
         IN  [status |-> 200,
              album  |-> [id          |-> albumDetails.id,
                          name        |-> albumDetails.name,
                          description |-> albumDetails.description,
                          photos      |-> visiblePhotos,
                          photoCount  |-> albumDetails.photoCount],
              photoWord |-> IF albumDetails.photoCount = 1 THEN "photo" ELSE "photos"]

(* GET /album/:albumId for the session user userId *)
albumRoute(albumColl, coll, albumId, userId) ==
    LET albumDetails == getAlbumDetails(albumColl, coll, albumId) IN
    IF albumDetails = Null
    THEN [status |-> 404, body |-> "Album not found"]
    ELSE LET visible(photo) == canViewPhoto(photo, userId)
             visiblePhotos == SelectSeq(albumDetails.photos, visible)
         IN  [status |-> 200,
              album  |-> [id          |-> albumDetails.id,
                          name        |-> albumDetails.name,
                          description |-> albumDetails.description,
                          photos      |-> visiblePhotos,
                          photoCount  |-> Len(visiblePhotos)],
              photoWord |-> IF Len(visiblePhotos) = 1 THEN "photo" ELSE "photos"]

----------------------------------------------------------------------------
(* Inputs *)

Titles == {EmptyStr, Lake}

Descriptions == {EmptyStr, Lake}

Opt(S) == {Undefined} \cup {<<v>> : v \in S}

(* photoData of createPhoto: the owner is the uploading user *)
PhotoDatas ==
    [filename    : {<<"f">>},
     title       : {Undefined, <<Lake>>},
     description : {Undefined},
     tags        : {<<<<>>>>},
     albums      : {<<<<1>>>>},
     visibility  : {Undefined, <<"public">>},
     owner       : UserIds,
     date        : {Undefined}]

(* updates of updatePhotoWithVisibility: every combination of present and *)
(* absent fields, an emptied title, and each visibility value the form can *)
(* post; "friends" is not a defined visibility                             *)
Updates ==
    [title       : Opt({Lake}),
     description : Opt({Lake}),
     visibility  : Opt({"public"})]
    \cup
    {[title |-> <<EmptyStr>>, description |-> Undefined, visibility |-> Undefined],
     [title |-> Undefined, description |-> Undefined, visibility |-> <<"private">>],
     [title |-> Undefined, description |-> Undefined, visibility |-> <<"friends">>]}

(* the updates the steps apply: the empty one, those of one field and the *)
(* one of all three; an update of two fields is two of these in a row     *)
StepUpdates ==
    {u \in Updates :
        Cardinality({f \in {"title", "description", "visibility"} :
                        u[f] # Undefined}) # 2}

(* tags that differ in case only, and a tag of white space *)
LakeLower == toLowerCase(Lake)

Blank == <<" ">>

Tags == {Lake, LakeLower}

(* what is typed at the prompts of handleTagPhoto *)
PhotoIdInputs == {<<"1">>, <<" ", "2", "x">>, <<"x">>}

NewTags == {Lake, Blank, EmptyStr}

(* comment texts: one with text inside white space, and three without text *)
Hi == <<"h", "i">>

CommentTexts == {<<" ", "h", "i", "\t">>, Blank}

BlankTexts == {EmptyStr, Blank, <<"\t", " ", "\n">>}

(* the readings of the clock, new Date() *)
Times == {1, 2}

(* uploads of the two visibilities *)
CommentPhotoDatas ==
    [filename    : {<<"f">>},
     title       : {Undefined},
     description : {Undefined},
     tags        : {Undefined},
     albums      : {Undefined},
     visibility  : {Undefined, <<"public">>},
     owner       : UserIds,
     date        : {Undefined}]

(* the requests that may be in progress at once *)
Requests == {1, 2}

Idle == [pc |-> "idle"]

(* what is typed into the registration form *)
Names == {<<"u">>, EmptyStr}

Emails == {<<"a">>, <<"A">>, EmptyStr}

Passwords == {<<"p">>, <<"q">>, EmptyStr}

(* what is typed at the Username prompt *)
Usernames == {<<"u">>, <<"v">>, <<"x">>}

(* the salts bcrypt may draw *)
Salts == {1, 2}

(* updates tried on a photo that is missing or another user's *)
FailingUpdates ==
    {[title |-> Undefined, description |-> Undefined, visibility |-> Undefined],
     [title |-> <<Lake>>, description |-> Undefined, visibility |-> Undefined],
     [title |-> Undefined, description |-> Undefined, visibility |-> <<"friends">>]}

(* title and description of updatePhotoDetails *)
Details == {<<Lake, EmptyStr>>, <<EmptyStr, Lake>>}

(* uploads that differ in where the word "Lake" occurs *)
SearchPhotoDatas ==
    {[filename |-> <<"f">>, title |-> c[1], description |-> c[2],
      tags |-> <<c[3]>>, albums |-> <<<<1>>>>, visibility |-> v,
      owner |-> o, date |-> Undefined] :
        c \in {<<Undefined, Undefined, <<>>>>,
               <<<<Lake>>, Undefined, <<>>>>,
               <<Undefined, <<Lake>>, <<>>>>,
               <<Undefined, Undefined, <<Lake>>>>,
               <<<<Lake>>, Undefined, <<Lake, LakeLower>>>>},
        v \in {Undefined, <<"public">>},
        o \in UserIds}

Queries == {<<"A", "K">>, <<"x">>, <<" ">>, EmptyStr}

(* queries that hold a character *)
TermQueries == {<<"A", "K">>, <<"L">>, <<"x">>, <<"e", " ">>}

(* uploads into album 1, album 2, both or none *)
AlbumPhotoDatas ==
    [filename    : {<<"f">>},
     title       : {Undefined},
     description : {Undefined},
     tags        : {<<<<>>>>},
     albums      : {Undefined, <<<<1>>>>, <<<<2, 1>>>>},
     visibility  : {Undefined, <<"public">>},
     owner       : UserIds,
     date        : {Undefined}]

AlbumIdsAsked == {1, 2, 3}

PhotoIds == 1 .. (MaxPhotos + 1)

(* photo records as createPhoto builds them *)
PhotoRecords ==
    [id          : {1},
     filename    : {<<"f">>},
     title       : Titles,
     description : Descriptions,
     tags        : {<<>>},
     albums      : {<<1>>},
     visibility  : Visibilities \cup {"friends"},
     owner       : UserIds,
     date        : {"now"}]

----------------------------------------------------------------------------
(* Operations *)

CreatePhoto(photoData) ==
    /\ Len(photos) < MaxPhotos
    /\ LET r == createPhoto(photos, photoData, "now") IN
       /\ photos' = r.coll
       /\ last' = [op |-> "createPhoto", result |-> r.photo]
    /\ UNCHANGED <<comments, users, requests, outbox>>

UpdatePhotoWithVisibility(photoId, userId, updates) ==
    /\ LET r == updatePhotoWithVisibility(photos, photoId, userId, updates) IN
       /\ photos' = r.coll
       /\ last' = [op |-> "updatePhotoWithVisibility", result |-> r.result]
    /\ UNCHANGED <<comments, users, requests, outbox>>

(* updatePhotoDetails is given no acting user: whoever posts the form of   *)
(* the first web application reaches it                                    *)
UpdatePhotoDetails(photoId, title, description) ==
    /\ LET r == updatePhotoDetails(photos, photoId, title, description) IN
       /\ photos' = r.coll
       /\ last' = [op |-> "updatePhotoDetails", result |-> r.result]
    /\ UNCHANGED <<comments, users, requests, outbox>>

UpdatePhotoDetailsJson(photoId, userId, title, description) ==
    /\ LET r == updatePhotoDetailsJson(photos, photoId, userId, title, description) IN
       /\ photos' = r.coll
       /\ last' = [op |-> "updatePhotoDetailsJson", result |-> r.result]
    /\ UNCHANGED <<comments, users, requests, outbox>>

AddTagToPhoto(photoId, userId, tag) ==
    /\ LET r == addTagToPhoto(photos, photoId, userId, tag) IN
       /\ photos' = r.coll
       /\ last' = [op |-> "addTagToPhoto", result |-> r.result]
    /\ UNCHANGED <<comments, users, requests, outbox>>

HandleTagPhoto(user, photoIdInput, newTag) ==
    /\ LET r == handleTagPhoto(photos, user, photoIdInput, newTag) IN
       /\ photos' = r.coll
       /\ last' = [op |-> "handleTagPhoto", printed |-> r.printed]
    /\ UNCHANGED <<comments, users, requests, outbox>>

(* the clock does not run backwards: now is no earlier than any stored     *)
(* createdAt                                                               *)
AddComment(photoId, userId, username, commentText, now) ==
    /\ \A i \in DOMAIN comments : comments[i].createdAt <= now
    /\ LET r == addComment(photos, comments, photoId, userId, username,
                           commentText, now) IN
       /\ Len(r.coll) <= MaxComments
       /\ comments' = r.coll
       /\ last' = [op |-> "addComment", result |-> r.result]
    /\ UNCHANGED <<photos, users, requests, outbox>>

GetPhotoComments(photoId) ==
    /\ \E result \in getPhotoComments(comments, photoId) :
           last' = [op |-> "getPhotoComments", photoId |-> photoId,
                    result |-> result]
    /\ UNCHANGED <<photos, comments, users, requests, outbox>>

RegisterUser(name, email, password, salt, now) ==
    /\ \A i \in DOMAIN users : users[i].createdAt <= now
    /\ LET r == registerUser(users, name, email, password, salt, now) IN
       /\ Len(r.coll) <= MaxUsers
       /\ users' = r.coll
       /\ last' = [op |-> "registerUser", result |-> r.result]
    /\ UNCHANGED <<photos, comments, requests, outbox>>

LoginUser(email, password) ==
    /\ last' = [op |-> "loginUser", result |-> loginUser(users, email, password)]
    /\ UNCHANGED <<photos, comments, users, requests, outbox>>

AuthenticateUser(username, password) ==
    /\ last' = [op |-> "authenticateUser",
                result |-> authenticateUser(usersJson, username, password)]
    /\ UNCHANGED <<photos, comments, users, requests, outbox>>

Search(q, userId) ==
    /\ last' = [op |-> "search", query |-> q, userId |-> userId,
                results |-> searchRoute(photos, q, userId)]
    /\ UNCHANGED <<photos, comments, users, requests, outbox>>

AlbumPage(albumId, userId) ==
    /\ last' = [op |-> "album", albumId |-> albumId, userId |-> userId,
                response |-> albumRoute(albums, photos, albumId, userId)]
    /\ UNCHANGED <<photos, comments, users, requests, outbox>>

(* The policy predicates applied to a photo in hand *)
CanViewPhoto(photo, userId) ==
    /\ last' = [op |-> "canViewPhoto", photo |-> photo, userId |-> userId,
                result |-> canViewPhoto(photo, userId)]
    /\ UNCHANGED <<photos, comments, users, requests, outbox>>

CanEditPhoto(photo, userId) ==
    /\ last' = [op |-> "canEditPhoto", photo |-> photo, userId |-> userId,
                result |-> canEditPhoto(photo, userId)]
    /\ UNCHANGED <<photos, comments, users, requests, outbox>>

----------------------------------------------------------------------------
(* addComment as the requests run it: each await gives way to the other    *)
(* requests, so the handler runs in four steps with the store free to      *)
(* change between them.                                                    *)

(* the text is validated and persistence.findPhotoById is called *)
AddCommentBegin(p, photoId, userId, username, commentText) ==
    /\ requests[p].pc \in {"idle", "done"}
    /\ IF commentText = EmptyStr \/ trim(commentText) = EmptyStr
       THEN requests' = [requests EXCEPT ![p] =
                [pc |-> "done",
                 result |-> Result(FALSE, "Comment cannot be empty")]]
       ELSE requests' = [requests EXCEPT ![p] =
                [pc |-> "findPhotoById", photoId |-> photoId,
                 userId |-> userId, username |-> username,
                 commentText |-> commentText]]
    /\ UNCHANGED <<photos, comments, users, last, outbox>>

(* findPhotoById answers; the checks; createComment asks for the last id *)
AddCommentFindPhoto(p) ==
    /\ requests[p].pc = "findPhotoById"
    /\ LET photo == findPhotoById(photos, requests[p].photoId) IN
       IF photo = Null
       THEN requests' = [requests EXCEPT ![p] =
                [pc |-> "done", result |-> Result(FALSE, "Photo not found")]]
       ELSE IF ~canViewPhoto(photo, requests[p].userId)
       THEN requests' = [requests EXCEPT ![p] =
                [pc |-> "done",
                 result |-> Result(FALSE, "You cannot comment on this photo")]]
       ELSE requests' = [requests EXCEPT ![p].pc = "lastComment"]
    /\ UNCHANGED <<photos, comments, users, last, outbox>>

(* find({}).sort({id: -1}).limit(1) answers: nextId is computed *)
AddCommentLastComment(p) ==
    /\ requests[p].pc = "lastComment"
    /\ requests' = [requests EXCEPT ![p] =
           [pc |-> "insertOne", photoId |-> requests[p].photoId,
            userId |-> requests[p].userId, username |-> requests[p].username,
            commentText |-> requests[p].commentText,
            nextId |-> IF comments # <<>> THEN maxId(comments) + 1 ELSE 1]]
    /\ UNCHANGED <<photos, comments, users, last, outbox>>

(* insertOne(comment) with the id computed before, stamped new Date() *)
AddCommentInsertOne(p, now) ==
    /\ requests[p].pc = "insertOne"
    /\ \A i \in DOMAIN comments : comments[i].createdAt <= now
    /\ Len(comments) < MaxComments
    /\ LET comment == [id        |-> requests[p].nextId,
                       photoId   |-> requests[p].photoId,
                       userId    |-> requests[p].userId,
                       username  |-> requests[p].username,
                       text      |-> trim(requests[p].commentText),
                       createdAt |-> now]
       IN  /\ comments' = Append(comments, comment)
           /\ requests' = [requests EXCEPT ![p] =
                  [pc |-> "done",
                   result |-> [success |-> TRUE,
                               message |-> "Comment added successfully",
                               comment |-> comment]]]
    /\ UNCHANGED <<photos, users, last, outbox>>

----------------------------------------------------------------------------
(* registerUser as the requests run it: the handler gives way at each      *)
(* await, so the users collection may change between its steps.            *)

(* the fields are validated and persistence.findUserByEmail is called *)
RegisterBegin(p, name, email, password) ==
    /\ requests[p].pc \in {"idle", "done"}
    /\ IF name = EmptyStr \/ email = EmptyStr \/ password = EmptyStr
       THEN requests' = [requests EXCEPT ![p] =
                [pc |-> "done",
                 result |-> Result(FALSE, "All fields are required")]]
       ELSE requests' = [requests EXCEPT ![p] =
                [pc |-> "findUserByEmail", name |-> name, email |-> email,
                 password |-> password]]
    /\ UNCHANGED <<photos, comments, users, last, outbox>>

(* findUserByEmail answers; bcrypt.hash is called *)
RegisterFindUserByEmail(p) ==
    /\ requests[p].pc = "findUserByEmail"
    /\ IF findUserByEmail(users, requests[p].email) # Null
       THEN requests' = [requests EXCEPT ![p] =
                [pc |-> "done",
                 result |-> Result(FALSE, "Email already registered")]]
       ELSE requests' = [requests EXCEPT ![p].pc = "hash"]
    /\ UNCHANGED <<photos, comments, users, last, outbox>>

(* bcrypt.hash answers; createUser asks for the user with the last id *)
RegisterHash(p, salt) ==
    /\ requests[p].pc = "hash"
    /\ requests' = [requests EXCEPT ![p] =
           [pc |-> "lastUser", name |-> requests[p].name,
            email |-> requests[p].email,
            password |-> bcryptHash(requests[p].password, salt)]]
    /\ UNCHANGED <<photos, comments, users, last, outbox>>

(* find({}).sort({id: -1}).limit(1) answers: nextId is computed *)
RegisterLastUser(p) ==
    /\ requests[p].pc = "lastUser"
    /\ requests' = [requests EXCEPT ![p] =
           [pc |-> "insertOne", name |-> requests[p].name,
            email |-> requests[p].email, password |-> requests[p].password,
            nextId |-> IF users # <<>> THEN maxId(users) + 1 ELSE 1]]
    /\ UNCHANGED <<photos, comments, users, last, outbox>>

(* insertOne(user) with the id computed before, stamped new Date() *)
RegisterInsertOne(p, now) ==
    /\ requests[p].pc = "insertOne"
    /\ \A i \in DOMAIN users : users[i].createdAt <= now
    /\ Len(users) < MaxUsers
    /\ LET user == [id        |-> requests[p].nextId,
                    name      |-> requests[p].name,
                    email     |-> requests[p].email,
                    password  |-> requests[p].password,
                    createdAt |-> now]
       IN  /\ users' = Append(users, user)
           /\ requests' = [requests EXCEPT ![p] =
                  [pc |-> "done",
                   result |-> [success |-> TRUE,
                               message |-> "Registration successful",
                               user |-> [id |-> user.id, name |-> user.name,
                                         email |-> user.email]]]]
    /\ UNCHANGED <<photos, comments, last, outbox>>

----------------------------------------------------------------------------
(* addTagToPhoto and updatePhotoDetails over photos.json as the requests   *)
(* run them: findPhotoById reads the file, updatePhoto reads it again,     *)
(* changes its copy and writes the whole copy back, and the handler gives  *)
(* way at each read and write.                                             *)

(* addTagToPhoto is called: findPhotoById asks for the file *)
AddTagBegin(p, photoId, userId, tag) ==
    /\ requests[p].pc \in {"idle", "done"}
    /\ requests' = [requests EXCEPT ![p] =
           [pc |-> "findPhotoById", op |-> "addTagToPhoto",
            photoId |-> photoId, userId |-> userId, tag |-> tag]]
    /\ UNCHANGED <<photos, comments, users, last, outbox>>

(* findPhotoById answers; the checks; updatePhoto asks for the file *)
AddTagFindPhoto(p) ==
    /\ requests[p].pc = "findPhotoById"
    /\ requests[p].op = "addTagToPhoto"
    /\ LET photo == findPhotoById(photos, requests[p].photoId)
           failed(message) ==
               [pc |-> "done", op |-> "addTagToPhoto",
                photoId |-> requests[p].photoId, tag |-> requests[p].tag,
                result |-> Result(FALSE, message)]
       IN  IF photo = Null
           THEN requests' = [requests EXCEPT ![p] = failed("Photo not found.")]
           ELSE IF photo.owner # requests[p].userId
           THEN requests' = [requests EXCEPT ![p] =
                    failed("Access denied. You do not own this photo.")]
           ELSE IF \E i \in DOMAIN photo.tags : photo.tags[i] = requests[p].tag
           THEN requests' = [requests EXCEPT ![p] =
                    failed("Photo already has this tag.")]
           ELSE requests' = [requests EXCEPT ![p] =
                    [pc |-> "loadPhotos", op |-> "addTagToPhoto",
                     photoId |-> requests[p].photoId, tag |-> requests[p].tag,
                     updates |-> [title |-> Undefined, description |-> Undefined,
                                  tags |-> <<Append(photo.tags, requests[p].tag)>>],
                     message |-> "Updated!"]]
    /\ UNCHANGED <<photos, comments, users, last, outbox>>

(* updatePhotoDetails is called: findPhotoById asks for the file *)
UpdateDetailsBegin(p, photoId, userId, title, description) ==
    /\ requests[p].pc \in {"idle", "done"}
    /\ requests' = [requests EXCEPT ![p] =
           [pc |-> "findPhotoById", op |-> "updatePhotoDetails",
            photoId |-> photoId, userId |-> userId,
            title |-> title, description |-> description]]
    /\ UNCHANGED <<photos, comments, users, last, outbox>>

(* findPhotoById answers; the checks; updatePhoto asks for the file *)
UpdateDetailsFindPhoto(p) ==
    /\ requests[p].pc = "findPhotoById"
    /\ requests[p].op = "updatePhotoDetails"
    /\ LET photo == findPhotoById(photos, requests[p].photoId)
           failed(message) ==
               [pc |-> "done", op |-> "updatePhotoDetails",
                photoId |-> requests[p].photoId, tag |-> EmptyStr,
                result |-> Result(FALSE, message)]
       IN  IF photo = Null
           THEN requests' = [requests EXCEPT ![p] = failed("Photo not found.")]
           ELSE IF photo.owner # requests[p].userId
           THEN requests' = [requests EXCEPT ![p] =
                    failed("Access denied. You do not own this photo.")]
           ELSE requests' = [requests EXCEPT ![p] =
                    [pc |-> "loadPhotos", op |-> "updatePhotoDetails",
                     photoId |-> requests[p].photoId, tag |-> EmptyStr,
                     updates |-> [title |-> IF requests[p].title # EmptyStr
                                            THEN <<requests[p].title>>
                                            ELSE Undefined,
                                  description |->
                                      IF requests[p].description # EmptyStr
                                      THEN <<requests[p].description>>
                                      ELSE Undefined,
                                  tags |-> Undefined],
                     message |-> "Photo updated"]]
    /\ UNCHANGED <<photos, comments, users, last, outbox>>

(* updatePhoto: loadPhotos answers, the copy is changed, savePhotos is     *)
(* called with it; with no such photo nothing is written                   *)
UpdatePhotoLoadPhotos(p) ==
    /\ requests[p].pc = "loadPhotos"
    /\ LET r == updatePhotoJson(photos, requests[p].photoId, requests[p].updates)
           q == requests[p]
       IN  IF r.found
           THEN requests' = [requests EXCEPT ![p] =
                    [pc |-> "savePhotos", op |-> q.op, photoId |-> q.photoId,
                     tag |-> q.tag, message |-> q.message, file |-> r.coll]]
           ELSE requests' = [requests EXCEPT ![p] =
                    [pc |-> "done", op |-> q.op, photoId |-> q.photoId,
                     tag |-> q.tag, result |-> Result(TRUE, q.message)]]
    /\ UNCHANGED <<photos, comments, users, last, outbox>>

(* savePhotos writes the whole copy to photos.json; the handler returns *)
UpdatePhotoSavePhotos(p) ==
    /\ requests[p].pc = "savePhotos"
    /\ photos' = requests[p].file
    /\ requests' = [requests EXCEPT ![p] =
           [pc |-> "done", op |-> requests[p].op,
            photoId |-> requests[p].photoId, tag |-> requests[p].tag,
            result |-> Result(TRUE, requests[p].message)]]
    /\ UNCHANGED <<comments, users, last, outbox>>

----------------------------------------------------------------------------
Init ==
    /\ photos = <<>>
    /\ comments = <<>>
    /\ users = <<>>
    /\ last = [op |-> "none"]
    /\ requests = [p \in Requests |-> Idle]
    /\ outbox = <<>>

(* uploads and visibility-aware updates of the photos *)
Next ==
    \/ \E photoData \in PhotoDatas : CreatePhoto(photoData)
    \/ \E photoId \in PhotoIds, userId \in Actors, updates \in StepUpdates :
           UpdatePhotoWithVisibility(photoId, userId, updates)

Spec == Init /\ [][Next]_vars

NextSearch ==
    \/ \E photoData \in SearchPhotoDatas : CreatePhoto(photoData)
    \/ \E q \in Queries, userId \in UserIds : Search(q, userId)

SpecSearch == Init /\ [][NextSearch]_vars

NextAlbum ==
    \/ \E photoData \in AlbumPhotoDatas : CreatePhoto(photoData)
    \/ \E albumId \in AlbumIdsAsked, userId \in UserIds : AlbumPage(albumId, userId)

SpecAlbum == Init /\ [][NextAlbum]_vars

(* every operation that writes to a collection, with one input of each kind; *)
(* the comments are those of user 2 on photo 1                               *)
NextAll ==
    \/ \E owner \in UserIds :
           CreatePhoto([filename |-> <<"f">>, title |-> Undefined,
                        description |-> Undefined, tags |-> Undefined,
                        albums |-> <<<<1>>>>, visibility |-> Undefined,
                        owner |-> owner, date |-> Undefined])
    \/ \E photoId \in PhotoIds, userId \in Actors :
           UpdatePhotoWithVisibility(photoId, userId,
               [title |-> <<Lake>>, description |-> Undefined,
                visibility |-> <<"public">>])
    \/ \E photoId \in PhotoIds, userId \in UserIds :
           UpdatePhotoWithVisibility(photoId, userId,
               [title |-> Undefined, description |-> Undefined,
                visibility |-> <<"private">>])
    \/ \E photoId \in PhotoIds : UpdatePhotoDetails(photoId, Lake, EmptyStr)
    \/ \E photoId \in PhotoIds, userId \in Actors :
           UpdatePhotoDetailsJson(photoId, userId, Lake, EmptyStr)
    \/ \E photoId \in PhotoIds, userId \in Actors :
           AddTagToPhoto(photoId, userId, Lake)
    \/ AddComment(1, 2, <<"u">>, <<"h", "i">>, 1)
    \/ RegisterUser(<<"u">>, <<"a">>, <<"p">>, 1, 1)
    \/ \E password \in {<<"p">>, <<"q">>} : LoginUser(<<"a">>, password)

SpecAll == Init /\ [][NextAll]_vars

(* tagging, by the business operation and by the prompt *)
NextTags ==
    \/ \E owner \in UserIds :
           CreatePhoto([filename |-> <<"f">>, title |-> Undefined,
                        description |-> Undefined, tags |-> Undefined,
                        albums |-> Undefined, visibility |-> Undefined,
                        owner |-> owner, date |-> Undefined])
    \/ \E photoId \in PhotoIds, userId \in Actors, tag \in Tags :
           AddTagToPhoto(photoId, userId, tag)
    \/ \E id \in UserIds, photoIdInput \in PhotoIdInputs, newTag \in NewTags :
           HandleTagPhoto([id |-> id], photoIdInput, newTag)

SpecTags == Init /\ [][NextTags]_vars

(* commenting on the first two photo ids, and listing the comments *)
NextComments ==
    \/ \E photoData \in CommentPhotoDatas : CreatePhoto(photoData)
    \/ \E photoId \in {1, 2}, userId \in UserIds, commentText \in CommentTexts,
          now \in Times :
           AddComment(photoId, userId, <<"u">>, commentText, now)
    \/ \E photoId \in {1, 2} : GetPhotoComments(photoId)

SpecComments == Init /\ [][NextComments]_vars

(* the four operations that check before they write *)
NextMutations ==
    \/ \E owner \in UserIds :
           CreatePhoto([filename |-> <<"f">>, title |-> Undefined,
                        description |-> Undefined, tags |-> Undefined,
                        albums |-> Undefined, visibility |-> Undefined,
                        owner |-> owner, date |-> Undefined])
    \/ \E photoId \in PhotoIds, userId \in Actors :
           UpdatePhotoWithVisibility(photoId, userId,
               [title |-> Undefined, description |-> Undefined,
                visibility |-> <<"public">>])
    \/ \E photoId \in PhotoIds, userId \in Actors :
           AddTagToPhoto(photoId, userId, Lake)
    \/ \E commentText \in CommentTexts :
           AddComment(1, 2, <<"u">>, commentText, 1)
    \/ \E name \in Names : RegisterUser(name, <<"a">>, <<"p">>, 1, 1)

SpecMutations == Init /\ [][NextMutations]_vars

(* registration and login *)
NextUsers ==
    \/ \E name \in Names, email \in Emails, password \in Passwords,
          salt \in Salts :
           RegisterUser(name, email, password, salt, 1)
    \/ \E email \in Emails \cup {<<"b">>}, password \in Passwords :
           LoginUser(email, password)
    \/ \E username \in Usernames, password \in Passwords :
           AuthenticateUser(username, password)

SpecUsers == Init /\ [][NextUsers]_vars

(* requests that comment at the same time *)
NextConcurrent ==
    \/ \E photoData \in CommentPhotoDatas : CreatePhoto(photoData)
    \/ \E p \in Requests, photoId \in {1, 2}, commentText \in CommentTexts :
           AddCommentBegin(p, photoId, p, <<"u">>, commentText)
    \/ \E p \in Requests : AddCommentFindPhoto(p)
    \/ \E p \in Requests : AddCommentLastComment(p)
    \/ \E p \in Requests, now \in Times : AddCommentInsertOne(p, now)

SpecConcurrent == Init /\ [][NextConcurrent]_vars

NextCommentRace ==
    \/ \E photoData \in CommentPhotoDatas : CreatePhoto(photoData)
    \/ \E photoId \in {1, 2}, userId \in UserIds :
           UpdatePhotoWithVisibility(photoId, userId,
               [title |-> Undefined, description |-> Undefined,
                visibility |-> <<"private">>])
    \/ \E p \in Requests, photoId \in {1, 2}, commentText \in CommentTexts :
           AddCommentBegin(p, photoId, p, <<"u">>, commentText)
    \/ \E p \in Requests : AddCommentFindPhoto(p)
    \/ \E p \in Requests : AddCommentLastComment(p)
    \/ \E p \in Requests, now \in Times : AddCommentInsertOne(p, now)

SpecCommentRace == Init /\ [][NextCommentRace]_vars

----------------------------------------------------------------------------
NextTagRace ==
    \/ CreatePhoto([filename |-> <<"f">>, title |-> Undefined,
                    description |-> Undefined, tags |-> Undefined,
                    albums |-> Undefined, visibility |-> Undefined,
                    owner |-> 1, date |-> Undefined])
    \/ \E p \in Requests, userId \in UserIds, tag \in Tags :
           AddTagBegin(p, 1, userId, tag)
    \/ \E p \in Requests : AddTagFindPhoto(p)
    \/ \E p \in Requests, photoId \in {1, 2} :
           UpdateDetailsBegin(p, photoId, 1, Lake, EmptyStr)
    \/ \E p \in Requests : UpdateDetailsFindPhoto(p)
    \/ \E p \in Requests : UpdatePhotoLoadPhotos(p)
    \/ \E p \in Requests : UpdatePhotoSavePhotos(p)

SpecTagRace == Init /\ [][NextTagRace]_vars

----------------------------------------------------------------------------
NextRegister ==
    \/ \E p \in Requests, name \in Names, email \in Emails :
           RegisterBegin(p, name, email, <<"p">>)
    \/ \E p \in Requests : RegisterFindUserByEmail(p)
    \/ \E p \in Requests, salt \in Salts : RegisterHash(p, salt)
    \/ \E p \in Requests : RegisterLastUser(p)
    \/ \E p \in Requests, now \in Times : RegisterInsertOne(p, now)

SpecRegister == Init /\ [][NextRegister]_vars

----------------------------------------------------------------------------
NextPolicy ==
    \/ \E photo \in PhotoRecords \cup {Null, Undefined}, userId \in Actors :
           CanViewPhoto(photo, userId)
    \/ \E photo \in PhotoRecords \cup {Null, Undefined}, userId \in Actors :
           CanEditPhoto(photo, userId)

SpecPolicy == Init /\ [][NextPolicy]_vars

----------------------------------------------------------------------------
(* Claims *)

(* C1: for a photo in hand and any acting user, absent included,           *)
(* canViewPhoto answers true exactly when the photo is public, or it is    *)
(* private and the acting user is its owner; so a private photo is shown   *)
(* to its owner, to no other user and to no absent user, and a photo of    *)
(* any other visibility value to nobody.                                   *)
C1_CanViewExactly ==
    (last.op = "canViewPhoto" /\ last.photo \notin {Null, Undefined}) =>
        LET p == last.photo
            u == last.userId
        IN  /\ p.visibility = "public" => last.result = TRUE
            /\ (p.visibility = "private" /\ u = p.owner) => last.result = TRUE
            /\ (p.visibility = "private" /\ u # p.owner) => last.result = FALSE
            /\ p.visibility \notin {"public", "private"} => last.result = FALSE

C1_Witness ==
    /\ last.op = "canViewPhoto"
    /\ last.photo \notin {Null, Undefined}
    /\ last.photo.visibility = "private"
    /\ last.userId = NoUser
    /\ last.result = FALSE

(* C2: canEditPhoto answers true exactly when the acting user is present   *)
(* and is the owner of the photo, whatever the photo's visibility.         *)
C2_CanEditIffOwner ==
    (last.op = "canEditPhoto" /\ last.photo \notin {Null, Undefined}) =>
        (last.result = TRUE <=>
            (last.userId # NoUser /\ last.userId = last.photo.owner))

C2_Witness ==
    /\ last.op = "canEditPhoto"
    /\ last.photo \notin {Null, Undefined}
    /\ last.photo.visibility = "public"
    /\ last.userId \in UserIds
    /\ last.userId # last.photo.owner
    /\ last.result = FALSE

C4_AlbumShowsExactlyVisible ==
    last.op = "album" =>
        LET r == last.response
            a == last.albumId
            u == last.userId
            expected ==
                {photos[i] : i \in
                    {j \in DOMAIN photos :
                        /\ a \in Range(photos[j].albums)
                        /\ \/ photos[j].visibility = "public"
                           \/ photos[j].visibility = "private"
                                  /\ photos[j].owner = u}}
        IN  IF \A k \in DOMAIN albums : albums[k].id # a
            THEN r.status = 404
            ELSE /\ r.status = 200
                 /\ Range(r.album.photos) = expected
                 /\ Len(r.album.photos) = Cardinality(expected)
                 /\ r.album.photoCount = Len(r.album.photos)

C4_Witness ==
    /\ last.op = "album"
    /\ last.response.status = 200
    /\ last.response.album.photoCount = 1
    /\ \E j \in DOMAIN photos :
           /\ last.albumId \in Range(photos[j].albums)
           /\ photos[j].visibility = "private"
           /\ photos[j].owner # last.userId

(* C5: no exported operation changes a stored photo on behalf of anyone    *)
(* but its owner: whichever of updatePhotoWithVisibility,                  *)
(* updatePhotoDetails (web), updatePhotoDetails (command line) and         *)
(* addTagToPhoto is called, for whichever requester, the photos change     *)
(* only if the requester owns the photo named.                             *)
C5_MutationsOwnerChecked ==
    \A photoId \in PhotoIds, requester \in Actors :
      LET OwnerIs(p, u) == /\ findPhotoById(photos, p) # Null
                           /\ findPhotoById(photos, p).owner = u
      IN
        /\ \A updates \in Updates :
               updatePhotoWithVisibility(photos, photoId, requester, updates).coll
                   # photos => OwnerIs(photoId, requester)
        /\ \A d \in Details :
               updatePhotoDetails(photos, photoId, d[1], d[2]).coll
                   # photos => OwnerIs(photoId, requester)
        /\ \A d \in Details :
               updatePhotoDetailsJson(photos, photoId, requester, d[1], d[2]).coll
                   # photos => OwnerIs(photoId, requester)
        /\ addTagToPhoto(photos, photoId, requester, Lake).coll
               # photos => OwnerIs(photoId, requester)

(* C6: updatePhotoWithVisibility answers "Photo not found" when no photo   *)
(* has the id, whoever asks; when the photo exists and the acting user is  *)
(* not its owner it answers the permission failure; in both cases the      *)
(* photos are as before.                                                   *)
C6_UpdateChecksInOrder ==
    \A photoId \in PhotoIds, userId \in Actors, updates \in Updates :
        LET r == updatePhotoWithVisibility(photos, photoId, userId, updates)
            stored == {i \in DOMAIN photos : photos[i].id = photoId}
        IN  /\ stored = {} =>
                /\ r.result = Result(FALSE, "Photo not found")
                /\ r.coll = photos
            /\ (stored # {} /\ \A i \in stored : photos[i].owner # userId) =>
                /\ r.result = Result(FALSE,
                       "You do not have permission to edit this photo")
                /\ r.coll = photos

C6_Witness ==
    /\ last.op = "updatePhotoWithVisibility"
    /\ last.result = Result(FALSE, "You do not have permission to edit this photo")
    /\ photos # <<>>

(* C7: every stored photo's visibility is "public" or "private".           *)
C7_VisibilityDefined ==
    \A i \in DOMAIN photos : photos[i].visibility \in {"public", "private"}

(* C8: no step changes the owner of a stored photo, and no step removes a  *)
(* photo or changes its id.                                                *)
C8_OwnerImmutable ==
    [][\A i \in DOMAIN photos :
           /\ i \in DOMAIN photos'
           /\ photos'[i].id = photos[i].id
           /\ photos'[i].owner = photos[i].owner]_vars

C8_Witness ==
    /\ comments # <<>>
    /\ users # <<>>
    /\ \E i \in DOMAIN photos :
           /\ photos[i].title = Lake
           /\ photos[i].visibility = "public"
           /\ photos[i].tags # <<>>
           /\ photos[i].owner \in UserIds

(* C9: a successful updatePhotoWithVisibility sets, in the photo named,    *)
(* each of title, description and visibility that the update holds to the  *)
(* update's value and leaves every other field of that photo, every field  *)
(* the update omits, and every other photo as they were.                   *)
C9_UpdateFrame ==
    \A photoId \in PhotoIds, userId \in Actors, updates \in Updates :
        LET r == updatePhotoWithVisibility(photos, photoId, userId, updates)
            patched(photo) ==
                [photo EXCEPT
                    !.title       = IF updates.title # Undefined
                                    THEN updates.title[1] ELSE @,
                    !.description = IF updates.description # Undefined
                                    THEN updates.description[1] ELSE @,
                    !.visibility  = IF updates.visibility # Undefined
                                    THEN updates.visibility[1] ELSE @]
        IN  r.result.success =>
                r.coll = [i \in DOMAIN photos |->
                             IF photos[i].id = photoId
                             THEN patched(photos[i]) ELSE photos[i]]

C9_Witness ==
    /\ last.op = "updatePhotoWithVisibility"
    /\ last.result.success
    /\ \E i, j \in DOMAIN photos :
           /\ i # j
           /\ photos[i].description = Lake
           /\ photos[i].title = EmptyStr
           /\ photos[j].description = EmptyStr

(* C10: applying updatePhotoWithVisibility a second time with the same     *)
(* photo id, acting user and update leaves the photos as the first         *)
(* application left them and returns the same result.                      *)
C10_UpdateIdempotent ==
    \A photoId \in PhotoIds, userId \in Actors, updates \in Updates :
        LET once  == updatePhotoWithVisibility(photos, photoId, userId, updates)
            twice == updatePhotoWithVisibility(once.coll, photoId, userId, updates)
        IN  /\ twice.coll = once.coll
            /\ twice.result = once.result

C10_Witness ==
    /\ last.op = "updatePhotoWithVisibility"
    /\ last.result.success
    /\ \E i \in DOMAIN photos :
           /\ photos[i].title = Lake
           /\ photos[i].description = Lake
           /\ photos[i].visibility = "public"

(* C11: when the owner adds a tag the photo already has, the same string   *)
(* exactly, addTagToPhoto answers that the photo already has the tag and   *)
(* the photos are as before; and no stored photo has the same tag twice.   *)
C11_NoDuplicateTags ==
    /\ \A i \in DOMAIN photos : \A k \in DOMAIN photos[i].tags :
           LET r == addTagToPhoto(photos, photos[i].id, photos[i].owner,
                                  photos[i].tags[k])
           IN  /\ r.result = Result(FALSE, "Photo already has this tag.")
               /\ r.coll = photos
    /\ \A i \in DOMAIN photos : \A k, l \in DOMAIN photos[i].tags :
           photos[i].tags[k] = photos[i].tags[l] => k = l

C11_Witness ==
    /\ last.op = "addTagToPhoto"
    /\ last.result = Result(FALSE, "Photo already has this tag.")
    /\ \E i \in DOMAIN photos : photos[i].tags = <<Lake, LakeLower>>

(* C12: addTagToPhoto with a tag that is empty once trimmed fails and      *)
(* leaves the photos as they were, for every photo id and acting user.     *)
C12_BlankTagRejected ==
    \A photoId \in PhotoIds, userId \in Actors, tag \in {Blank, EmptyStr} :
        LET r == addTagToPhoto(photos, photoId, userId, tag)
        IN  /\ ~r.result.success
            /\ r.coll = photos

(* C13: addComment with a text that is empty or all white space answers    *)
(* "Comment cannot be empty" and stores no comment, for every photo id,    *)
(* stored or not, and every acting user: the text is judged before the     *)
(* photo is looked up.                                                     *)
C13_BlankCommentRejected ==
    \A photoId \in PhotoIds, userId \in Actors, commentText \in BlankTexts,
       now \in Times :
        LET r == addComment(photos, comments, photoId, userId, <<"u">>,
                            commentText, now)
        IN  /\ r.result = Result(FALSE, "Comment cannot be empty")
            /\ r.coll = comments

C13_Witness ==
    /\ last.op = "addComment"
    /\ last.result = Result(FALSE, "Comment cannot be empty")
    /\ comments # <<>>
    /\ Len(photos) = 1

(* C14: addComment with a text on a stored photo succeeds, storing one     *)
(* comment with the text trimmed, exactly when the photo is public or is   *)
(* private and the acting user owns it; otherwise it answers "You cannot   *)
(* comment on this photo" and stores nothing.                              *)
C14_CommentIffCanView ==
    \A i \in DOMAIN photos, userId \in Actors, now \in Times :
        LET r == addComment(photos, comments, photos[i].id, userId, <<"u">>,
                            <<" ", "h", "i", "\t">>, now)
            allowed == \/ photos[i].visibility = "public"
                       \/ /\ photos[i].visibility = "private"
                          /\ photos[i].owner = userId
        IN  IF allowed
            THEN /\ r.result.success
                 /\ Len(r.coll) = Len(comments) + 1
                 /\ SubSeq(r.coll, 1, Len(comments)) = comments
                 /\ r.coll[Len(r.coll)].photoId = photos[i].id
                 /\ r.coll[Len(r.coll)].userId = userId
                 /\ r.coll[Len(r.coll)].text = Hi
            ELSE /\ r.result = Result(FALSE, "You cannot comment on this photo")
                 /\ r.coll = comments

C14_Witness ==
    /\ last.op = "addComment"
    /\ last.result = Result(FALSE, "You cannot comment on this photo")
    /\ \E k \in DOMAIN comments :
           /\ findPhotoById(photos, comments[k].photoId) # Null
           /\ findPhotoById(photos, comments[k].photoId).owner # comments[k].userId

(* C17: getPhotoComments gives exactly the stored comments of the photo,   *)
(* each once, by ascending createdAt and, where createdAt is equal, by     *)
(* ascending id; the empty sequence when the photo has none.               *)
C17_ListInCreationOrder ==
    last.op = "getPhotoComments" =>
        LET r == last.result
            stored == {k \in DOMAIN comments : comments[k].photoId = last.photoId}
        IN  /\ {r[a] : a \in DOMAIN r} = {comments[k] : k \in stored}
            /\ Len(r) = Cardinality(stored)
            /\ \A a, b \in DOMAIN r :
                   a < b => \/ r[a].createdAt < r[b].createdAt
                            \/ /\ r[a].createdAt = r[b].createdAt
                               /\ r[a].id < r[b].id

(* C16: the ids of the stored comments are distinct, and a comment stored  *)
(* later has a larger id than every comment stored before it.              *)
C16_CommentIdsIncrease ==
    \A k, l \in DOMAIN comments : k < l => comments[k].id < comments[l].id

(* C18: no step removes or changes a stored comment: after every step each *)
(* comment is stored at its place with the same id, photoId, userId,       *)
(* username, text and createdAt.                                           *)
C18_CommentsAppendOnly ==
    [][\A k \in DOMAIN comments :
           /\ k \in DOMAIN comments'
           /\ comments'[k] = comments[k]]_vars

C18_Witness ==
    /\ Len(comments) >= 2
    /\ users # <<>>
    /\ \E i \in DOMAIN photos :
           /\ photos[i].id = comments[1].photoId
           /\ photos[i].visibility = "private"
           /\ photos[i].owner # comments[1].userId
           /\ photos[i].tags # <<>>

C19_RegisterRejects ==
    \A name \in Names, email \in Emails, password \in Passwords,
       salt \in Salts :
        LET r == registerUser(users, name, email, password, salt, 1)
            empty == EmptyStr \in {name, email, password}
            stored == \E i \in DOMAIN users : users[i].email = email
        IN  /\ empty =>
                /\ r.result = Result(FALSE, "All fields are required")
                /\ r.coll = users
            /\ (~empty /\ stored) =>
                /\ r.result = Result(FALSE, "Email already registered")
                /\ r.coll = users
            /\ (~empty /\ ~stored) =>
                /\ r.result.success
                /\ Len(r.coll) = Len(users) + 1
                /\ r.coll[Len(r.coll)].email = email

C19_Witness ==
    /\ last.op = "registerUser"
    /\ last.result = Result(FALSE, "Email already registered")
    /\ {users[i].email : i \in DOMAIN users} = {<<"a">>, <<"A">>}

(* C20: for an email and a password that are not empty, loginUser on users *)
(* where the email is unknown and loginUser on users where the email is    *)
(* registered with another password return the same result, a failure;     *)
(* and no loginUser step changes the users.                                *)
C20_LoginIndistinguishable ==
    /\ [](\A email \in (Emails \cup {<<"b">>}) \ {EmptyStr},
             password \in Passwords \ {EmptyStr} :
             LET here == loginUser(users, email, password)
                 unknownHere == \A i \in DOMAIN users : users[i].email # email
             IN  /\ unknownHere =>
                       \A other \in Passwords \ {EmptyStr, password},
                          salt \in Salts :
                           LET there == registerUser(<<>>, <<"u">>, email, other,
                                                     salt, 1).coll
                           IN  /\ here = loginUser(there, email, password)
                               /\ ~here.success
                 /\ (~unknownHere /\ ~here.success) =>
                       here = loginUser(<<>>, email, password))
    /\ [][last'.op = "loginUser" => users' = users]_vars

C20_Witness ==
    /\ last.op = "loginUser"
    /\ last.result = Result(FALSE, "Invalid email or password")
    /\ Len(users) = 1
    /\ users[1].email = <<"a">>

(* C21: the password stored for a registered user is not the password      *)
(* submitted, and a successful result of registerUser, loginUser or        *)
(* authenticateUser holds no password: its user has id, name and email     *)
(* only (the user of the command line: no password field).                 *)
C21_PasswordNeverExposed ==
    /\ \A name \in Names, email \in Emails, password \in Passwords,
          salt \in Salts :
           LET r == registerUser(users, name, email, password, salt, 1) IN
           r.result.success =>
               /\ r.coll[Len(r.coll)].password # password
               /\ DOMAIN r.result.user = {"id", "name", "email"}
               /\ DOMAIN r.result = {"success", "message", "user"}
    /\ \A i \in DOMAIN users, password \in Passwords :
           /\ users[i].password # password
           /\ LET r == loginUser(users, users[i].email, password) IN
              r.success =>
                  /\ DOMAIN r.user = {"id", "name", "email"}
                  /\ DOMAIN r = {"success", "message", "user"}
    /\ (last.op = "authenticateUser" /\ last.result # Null) =>
           "password" \notin DOMAIN last.result

(* C22: for a stored private photo and every user other than its owner,    *)
(* the absent one included: canViewPhoto is false and an update by that    *)
(* user fails with the permission message; the owner's update to public    *)
(* succeeds, and on the photos it leaves canViewPhoto of the stored photo  *)
(* is true for that user and that user's comment is stored.                *)
C22_PublishOpensPhoto ==
    \A i \in DOMAIN photos :
        photos[i].visibility = "private" =>
            LET id == photos[i].id
                published ==
                    updatePhotoWithVisibility(photos, id, photos[i].owner,
                        [title |-> Undefined, description |-> Undefined,
                         visibility |-> <<"public">>])
            IN  /\ published.result = Result(TRUE, "Photo updated successfully")
                /\ \A v \in Actors \ {photos[i].owner} :
                       /\ ~canViewPhoto(photos[i], v)
                       /\ \A updates \in FailingUpdates :
                              updatePhotoWithVisibility(photos, id, v, updates)
                                  = [coll |-> photos,
                                     result |-> Result(FALSE,
                                         "You do not have permission to edit this photo")]
                       /\ canViewPhoto(findPhotoById(published.coll, id), v)
                       /\ LET c == addComment(published.coll, comments, id, v,
                                              <<"u">>, Hi, 1)
                          IN  /\ c.result.success
                              /\ Len(c.coll) = Len(comments) + 1
                              /\ c.coll[Len(c.coll)].userId = v
                              /\ c.coll[Len(c.coll)].photoId = id

C22_Witness ==
    /\ \E i \in DOMAIN photos :
           /\ photos[i].id = 1
           /\ photos[i].owner = 1
           /\ photos[i].visibility = "public"
    /\ \E k \in DOMAIN comments : comments[k].photoId = 1 /\ comments[k].userId = 2
    /\ \E i \in DOMAIN photos : photos[i].visibility = "private"

(* C23: the search route answers the empty sequence for a query that is    *)
(* empty once trimmed, whatever the photos and whoever searches.           *)
C23_BlankQueryFindsNothing ==
    \A q \in BlankTexts, userId \in Actors : searchRoute(photos, q, userId) = <<>>

C23_Witness ==
    /\ last.op = "search"
    /\ last.query \in {EmptyStr, <<" ">>}
    /\ last.results = <<>>
    /\ \E i \in DOMAIN photos :
           /\ photos[i].title = Lake
           /\ photos[i].visibility = "public"

(* C24: for a query that holds a character, searchPhotos gives the stored  *)
(* photos, in their order and each once, of which the title, the           *)
(* description or some tag, in lower case, holds the query in lower case   *)
(* as a run of consecutive characters; it gives no other photo.            *)
C24_SearchMatchesSubstring ==
    \A q \in TermQueries :
        LET term == toLowerCase(q)
            holds(str) ==
                \E a \in 1 .. Len(str) :
                    /\ a + Len(term) - 1 <= Len(str)
                    /\ SubSeq(toLowerCase(str), a, a + Len(term) - 1) = term
            wanted(photo) ==
                \/ holds(photo.title)
                \/ holds(photo.description)
                \/ \E j \in DOMAIN photo.tags : holds(photo.tags[j])
        IN  searchPhotos(photos, q) = SelectSeq(photos, wanted)

C24_Witness ==
    /\ last.op = "search"
    /\ last.query = <<"A", "K">>
    /\ Len(photos) = 2
    /\ Len(last.results) = 1
    /\ last.results[1].title = Lake
    /\ last.results[1].tags = <<Lake, LakeLower>>

(* C25: every stored comment has been followed by a mail to the owner of   *)
(* its photo: at least as many mails have gone out as comments are stored. *)
C25_OwnerNotified ==
    Len(outbox) >= Len(comments)

C27_NoPhotoNoAccess ==
    /\ last.op \in {"canViewPhoto", "canEditPhoto"} => last.result \in BOOLEAN
    /\ (last.op \in {"canViewPhoto", "canEditPhoto"}
            /\ last.photo \in {Null, Undefined}) => last.result = FALSE

C27_Witness ==
    /\ last.op = "canViewPhoto"
    /\ last.photo = Undefined
    /\ last.userId \in UserIds
    /\ last.result = FALSE

(* C28: no two stored users have the same email, and no two stored users   *)
(* have the same id, however the steps of the register requests interleave.*)
C28_UsersUnique ==
    \A i, j \in DOMAIN users :
        i # j => /\ users[i].email # users[j].email
                 /\ users[i].id # users[j].id

(* C29: whenever a comment is inserted, the photo it is on, as stored at   *)
(* that moment, may be viewed by the comment's author: no comment of a     *)
(* user who is not the owner is inserted once the photo is private.        *)
C29_InsertedWhileViewable ==
    [][Len(comments') > Len(comments) =>
          LET comment == comments'[Len(comments')]
          IN  canViewPhoto(findPhotoById(photos, comment.photoId),
                           comment.userId)]_vars

(* C30: when two addTagToPhoto requests on the same photo with different   *)
(* tags have both returned success, the stored photo has both tags; and    *)
(* the write of an addTagToPhoto request changes no photo's title or       *)
(* description, so a title update saved meanwhile is not undone.           *)
C30_NoTagLost ==
    /\ [](\A p, q \in Requests :
            (/\ p # q
             /\ requests[p].pc = "done" /\ requests[q].pc = "done"
             /\ requests[p].op = "addTagToPhoto"
             /\ requests[q].op = "addTagToPhoto"
             /\ requests[p].result.success /\ requests[q].result.success
             /\ requests[p].photoId = requests[q].photoId
             /\ requests[p].tag # requests[q].tag) =>
                LET photo == findPhotoById(photos, requests[p].photoId)
                IN  /\ photo # Null
                    /\ requests[p].tag \in Range(photo.tags)
                    /\ requests[q].tag \in Range(photo.tags))
    /\ [][\A p \in Requests :
            (/\ requests[p].pc = "savePhotos"
             /\ requests[p].op = "addTagToPhoto"
             /\ requests'[p].pc = "done") =>
                \A i \in DOMAIN photos \cap DOMAIN photos' :
                    /\ photos'[i].title = photos[i].title
                    /\ photos'[i].description = photos[i].description]_vars

====
